---- MODULE Spec2Model ----
(***************************************************************************)
(* Model of the event page of the Commission Corner Tracker front-end:     *)
(*   - the seat derivation (the artistSeats memo of EventSeats /           *)
(*     CurrentEvent),                                                      *)
(*   - the selection state of CurrentEvent and its mirror in the `artist`  *)
(*     search parameter of the router location,                            *)
(*   - the data gateway (api/events.ts, api/artists.ts): its mock data and *)
(*     the promises its four operations return,                            *)
(*   - the queries of the event page against the shared query client,      *)
(*   - the DoubleClickButton and its confirmation timer.                   *)
(*                                                                         *)
(* JavaScript values are modelled as records, so that null, undefined,     *)
(* strings, objects and arrays can be compared with one another:           *)
(*   null        [kind |-> "null"]                                         *)
(*   undefined   [kind |-> "undefined"]                                    *)
(*   a string    [kind |-> "string", str |-> "..."]                        *)
(*   an array    [kind |-> "array", items |-> <<...>>, props |-> {...}]    *)
(* An array keeps its indexed elements in items (a hole of a sparse array  *)
(* is the element Hole) and its non-index properties (seats[-1] = x sets   *)
(* the property "-1", not an element) in props, a set of <<key, value>>.   *)
(***************************************************************************)
EXTENDS Integers, Sequences, FiniteSets, TLC

VARIABLES
    build,          \* which event route file is the page: "index" or "layout"
    history,        \* the tab's navigation history, a sequence of locations
    histIdx,        \* the current entry of history
    mounted,        \* a CurrentEvent (with its EventSeats) instance exists
    selectedArtist, \* the selectedArtist signal of CurrentEvent
    eventQuery,     \* query cache: key [eventId] -> data of fetchEvent
    summaryQuery,   \* query cache: key [eventId, 'artist summary'] -> data
    artistSeats,    \* the value of the artistSeats memo
    fetchedEvent,   \* history variable: payload of the latest fetchEvent result
    fetchedSummary, \* history variable: payload of the latest fetchEventArtists result
    lastCall,       \* history variable: argument of the latest updateSelectedArtist call
    prevCall,       \* history variable: argument of the call before the latest
    leftWith,       \* history variable: per history entry, the selection when last left
    superseded,     \* history variable: the latest result dropped a seated artist
    promises,       \* data gateway: the promises returned by its operations
    uncaught,       \* errors thrown out of timer callbacks (reported on the window)
    cache,          \* the shared query client: query key -> query
    issued,         \* history variable: the gateway calls the queries have made
    focused,        \* the page is visible (focusManager.isFocused())
    polled,         \* history variable: the interval refetches made, with the focus
    confirming,     \* DoubleClickButton: the confirming signal
    timeoutId,      \* DoubleClickButton: let timeoutId
    timers,         \* DoubleClickButton: ids of its pending setTimeout timers
    timerSeq,       \* the id the latest setTimeout call returned
    buttonMounted,  \* DoubleClickButton: the component is not disposed
    clicks,         \* history variable: number of clicks on the button
    onConfirmCalls, \* history variable: number of onConfirm() calls
    lastExit        \* history variable: how confirming was last left

\* The state of the event page.
pageVars == <<build, history, histIdx, mounted, selectedArtist, eventQuery,
              summaryQuery, artistSeats, fetchedEvent, fetchedSummary, lastCall,
              prevCall, leftWith, superseded>>

\* The state of the data gateway.
gatewayVars == <<promises, uncaught>>

\* The state of the query client.
queryVars == <<cache, issued, focused, polled>>

\* The state of a DoubleClickButton.
buttonVars == <<confirming, timeoutId, timers, timerSeq, buttonMounted, clicks,
                onConfirmCalls, lastExit>>

vars == <<pageVars, gatewayVars, queryVars, buttonVars>>

\* ------------------------------------------------------------------ bounds
\* Largest event capacity (EventDetails.seats) a fetch result carries.
MaxSeats == 3
\* Longest artist-summary list a fetch result carries.
MaxLen == 2
\* Longest navigation history of the browser tab.
MaxHist == 2
\* Most gateway calls made while the gateway is exercised on its own.
MaxCalls == 2
\* Most clicks on a DoubleClickButton.
MaxClicks == 9
\* Longest navigation history while the queries are exercised.
MaxVisits == 3

\* ------------------------------------------------------- JavaScript values
Null == [kind |-> "null"]
Undefined == [kind |-> "undefined"]
Hole == [kind |-> "hole"]
Str(s) == [kind |-> "string", str |-> s]
Num(n) == [kind |-> "number", num |-> n]

\* JavaScript truthiness of the values the model uses (objects and arrays
\* are truthy, also the empty array; null, undefined and "" are falsy).
Falsy(v) == v \in {Null, Undefined, Str("")}

\* a || b
Or(a, b) == IF Falsy(a) THEN b ELSE a

\* The artist slugs of fetch results, by position in the summary list.
SlugAt == <<"luna-starweaver", "crimson-paws", "crimson-2", "neon-tail-studios">>

\* The artist slugs that occur in shared links.
Slugs == {SlugAt[1], SlugAt[2]}

\* The events of the `current` list a page is opened for.
EventIds == {"event-1", "event-2"}

\* Values of the `artist` parameter of hand-written URLs that are the slug
\* of no artist.
PastedArtists == {"event-2"}

\* ----------------------------------------------------------- JS arrays
\* Mutant of NewArrayFillNull: the previous seat array is reused instead of
\* a fresh one being allocated (an incremental update).
NewArrayReuse(n) ==
    IF artistSeats # Null
    THEN artistSeats
    ELSE [kind |-> "array", items |-> [i \in 1..n |-> Null], props |-> {}]

\* new Array(n).fill(null), n >= 0
NewArrayFillNull(n) ==
    [kind |-> "array", items |-> [i \in 1..n |-> Null], props |-> {}]

\* Mutant of ArraySet: a slot that is taken is not overwritten.
ArraySetFirstWins(arr, idx, v) ==
    IF idx < 0
    THEN [arr EXCEPT !.props = {p \in arr.props : p[1] # idx} \cup {<<idx, v>>}]
    ELSE IF idx < Len(arr.items)
    THEN IF arr.items[idx + 1] = [kind |-> "null"]
         THEN [arr EXCEPT !.items[idx + 1] = v]
         ELSE arr
    ELSE [arr EXCEPT !.items =
            [i \in 1..(idx + 1) |->
                IF i <= Len(arr.items) THEN arr.items[i]
                ELSE IF i = idx + 1 THEN v ELSE [kind |-> "hole"]]]

\* arr[idx] = v for an integer idx (0-based).  An index inside the array
\* overwrites the element; an index at or past the end grows the array and
\* leaves holes between the old end and idx; a negative idx is no array
\* index: it sets an ordinary property and leaves length alone.
ArraySet(arr, idx, v) ==
    IF idx < 0
    THEN [arr EXCEPT !.props = {p \in arr.props : p[1] # idx} \cup {<<idx, v>>}]
    ELSE IF idx < Len(arr.items)
    THEN [arr EXCEPT !.items[idx + 1] = v]
    ELSE [arr EXCEPT !.items =
            [i \in 1..(idx + 1) |->
                IF i <= Len(arr.items) THEN arr.items[i]
                ELSE IF i = idx + 1 THEN v ELSE Hole]]

\* arr.length
Length(arr) == Len(arr.items)

\* The elements of an array.
Elements(arr) == {arr.items[i] : i \in 1..Len(arr.items)}

\* The summaries that occupy a slot of a seat array.
Occupants(arr) == Elements(arr) \ {Null, Hole}

\* An ArtistSummary (name, eventId and imageUrl play no part in the logic).
ArtistSummary(slug, seat) == [kind |-> "object", slug |-> Str(slug), seat |-> seat]

\* An EventDetails record, reduced to its capacity.
EventDetails(seats) == [kind |-> "object", seats |-> seats]

\* The array literal of the given elements.
ArrayOf(seq) == [kind |-> "array", items |-> seq, props |-> {}]

\* ------------------------------------------------------ seat derivation
\* The memo body works on two heap objects: the array `seats` it allocates
\* and the array `data` (eventArtistSummary.data) it reads.  A heap is the
\* pair of them, so that what the loop does to either is part of the model.
\*
\* eventArtistSummary.data.forEach(artist => seats[artist.seat - 1] = artist),
\* from element i on: forEach reads data, the callback writes seats only.
RECURSIVE ForEachAssign(_, _)

\* Mutant of ForEachAssign: the seat number is used as the index
\* (seats[artist.seat] = artist).
RECURSIVE ForEachAssignOffByOne(_, _)
ForEachAssignOffByOne(heap, i) ==
    IF i > Len(heap.data.items) THEN heap
    ELSE ForEachAssignOffByOne(
            [heap EXCEPT !.seats = ArraySet(heap.seats,
                                            heap.data.items[i].seat,
                                            heap.data.items[i])],
            i + 1)

\* Mutant of ForEachAssign: the list is consumed while it is walked
\* (while ((artist = data.shift())) seats[artist.seat - 1] = artist).
RECURSIVE ForEachShift(_, _)
ForEachShift(heap, i) ==
    IF Len(heap.data.items) = 0 THEN heap
    ELSE ForEachShift(
            [heap EXCEPT !.seats = ArraySet(heap.seats,
                                            Head(heap.data.items).seat - 1,
                                            Head(heap.data.items)),
                         !.data.items = Tail(heap.data.items)],
            i + 1)

ForEachAssign(heap, i) ==
    IF i > Length(heap.data) THEN heap
    ELSE ForEachAssign(
            [heap EXCEPT !.seats = ArraySet(heap.seats,
                                            heap.data.items[i].seat - 1,
                                            heap.data.items[i])],
            i + 1)

\* Mutant of artistSeatsMemo: null only while both results are missing
\* (&& for ||); a missing result is read as capacity 0 or as no summaries.
artistSeatsMemoAfterFirst(eventData, eventArtistSummary) ==
    IF Falsy(eventData) /\ Falsy(eventArtistSummary)
    THEN [value |-> Null, eventData |-> eventData,
          eventArtistSummary |-> eventArtistSummary]
    ELSE LET heap == ForEachAssign(
                        [seats |-> NewArrayFillNull(IF Falsy(eventData) THEN 0
                                                    ELSE eventData.seats),
                         data |-> IF Falsy(eventArtistSummary) THEN ArrayOf(<<>>)
                                  ELSE eventArtistSummary], 1)
         IN  [value |-> heap.seats, eventData |-> eventData,
              eventArtistSummary |-> eventArtistSummary]

\* One run of the artistSeats memo on the query data it reads: the value it
\* returns and the two query data objects as the run leaves them.
artistSeatsMemo(eventData, eventArtistSummary) ==
    IF Falsy(eventData) \/ Falsy(eventArtistSummary)
    THEN [value |-> Null, eventData |-> eventData,
          eventArtistSummary |-> eventArtistSummary]
    ELSE LET heap == ForEachAssign(
                        [seats |-> NewArrayFillNull(eventData.seats),
                         data |-> eventArtistSummary], 1)
         IN  [value |-> heap.seats, eventData |-> eventData,
              eventArtistSummary |-> heap.data]

\* ------------------------------------------------- router and location
\* A location is the route, its $eventId parameter and the query string of
\* the URL.  The only search parameter of the pages is `artist`.
EventsPath == "/events"
EventPath == "/events/$eventId"

\* The router's stringification of a search object into the query string:
\* a parameter whose value is undefined is left out, every other value is
\* written, the empty string as `artist=`.
stringifySearch(search) ==
    IF search.artist = Undefined THEN "" ELSE "?artist=" \o search.artist.str

\* The search objects a page of the model navigates to.
SearchObjects ==
    {[artist |-> a] :
        a \in {Undefined, Str("")} \cup {Str(SlugAt[j]) : j \in 1..Len(SlugAt)}
              \cup {Str(a) : a \in PastedArtists}}

\* The search objects of the URLs the tab is opened with.
LinkSearchObjects ==
    {[artist |-> a] : a \in {Undefined, Str("")} \cup {Str(s) : s \in Slugs}}

\* The router's parse of a query string, the inverse of stringifySearch on
\* the query strings of the model.
parseSearch(str) == CHOOSE search \in SearchObjects : stringifySearch(search) = str

EventsLocation == [path |-> EventsPath, eventId |-> "", searchStr |-> ""]

EventLocation(eventId, search) ==
    [path |-> EventPath, eventId |-> eventId, searchStr |-> stringifySearch(search)]

Locations ==
    {EventsLocation} \cup
    {EventLocation(e, search) : e \in EventIds, search \in LinkSearchObjects}

\* The location the tab shows.
location == history[histIdx]

\* Route.validateSearch of events_.$eventId.index.tsx
validateSearchIndex(search) == [artist |-> search.artist]

\* Route.validateSearch of events_.$eventId.tsx
validateSearchLayout(search) == [artist |-> Or(search.artist, Undefined)]

\* Route.useSearch(): the validated search of the current location.
useSearch ==
    IF build = "index"
    THEN validateSearchIndex(parseSearch(location.searchStr))
    ELSE validateSearchLayout(parseSearch(location.searchStr))

\* Mutant of initialSelection: the signal starts empty (createSignal(null)).
initialSelectionNone == [kind |-> "null"]

\* Mutant of initialSelection: the slug of the search is kept only if it is
\* the slug of an occupant of the seat array of the cached data.
initialSelectionValidated ==
    LET seats == artistSeatsMemo(eventQuery[location.eventId],
                                 summaryQuery[location.eventId]).value
    IN  IF /\ seats # Null
           /\ \E a \in Occupants(seats) : a.slug = useSearch.artist
        THEN useSearch.artist
        ELSE Null

\* createSignal<string | null>(search().artist || null)
initialSelection == Or(useSearch.artist, Null)

\* nav({search, replace}) of Route.useNavigate(): same route and params, the
\* given search; replace rewrites the current history entry, otherwise the
\* new location is pushed and the forward entries are dropped.
nav(search, replace) ==
    LET next == [location EXCEPT !.searchStr = stringifySearch(search)]
    IN  IF replace
        THEN /\ history' = [history EXCEPT ![histIdx] = next]
             /\ histIdx' = histIdx
             /\ leftWith' = leftWith
        ELSE /\ history' = Append(SubSeq(history, 1, histIdx), next)
             /\ histIdx' = histIdx + 1
             /\ leftWith' = Append(SubSeq(leftWith, 1, histIdx), Undefined)

\* Mutant of clearedSearch: the null branch leaves the search as it is.
clearedSearchKeep == parseSearch(location.searchStr)

\* The search the null branch of updateSelectedArtist navigates to:
\* {artist: ""} in events_.$eventId.index.tsx, {artist: undefined} in
\* events_.$eventId.tsx.
clearedSearch ==
    IF build = "index" THEN [artist |-> Str("")] ELSE [artist |-> Undefined]

\* Mutant of updateSelectedArtist: a slug is put into the signal but not
\* into the search.
updateSelectedArtistNoNav(artist) ==
    /\ IF Falsy(artist)
       THEN nav(clearedSearch, TRUE)
       ELSE nav(parseSearch(location.searchStr), TRUE)
    /\ selectedArtist' = artist
    /\ lastCall' = artist
    /\ prevCall' = lastCall

\* Mutant of updateSelectedArtist: the navigation lacks replace: true.
updateSelectedArtistPush(artist) ==
    /\ IF Falsy(artist)
       THEN nav(clearedSearch, FALSE)
       ELSE nav([artist |-> artist], FALSE)
    /\ selectedArtist' = artist
    /\ lastCall' = artist
    /\ prevCall' = lastCall

\* updateSelectedArtist(artist)
updateSelectedArtist(artist) ==
    /\ IF Falsy(artist)
       THEN nav(clearedSearch, TRUE)
       ELSE nav([artist |-> artist], TRUE)
    /\ selectedArtist' = artist
    /\ lastCall' = artist
    /\ prevCall' = lastCall

\* ---------------------------------------------------------------- inputs
\* The seat numbers of fetched summaries: in range, 0, negative, past the end.
SeatVals == (0 - 1)..(MaxSeats + 2)

\* The event records a fetchEvent result may carry.
EventResults == {EventDetails(n) : n \in 0..MaxSeats}

\* The summary lists a fetchEventArtists result may carry: up to MaxLen
\* summaries of distinct artists with any seat numbers.
SummaryLists ==
    UNION {{ArrayOf([j \in 1..n |-> ArtistSummary(SlugAt[j], f[j])]) :
                f \in [1..n -> SeatVals]} : n \in 0..MaxLen}

\* The results delivered while the selection is exercised: one capacity and
\* a few lists, among them one with an occupant whose slug is no shared link.
PageEventResults == {EventDetails(2)}
PageSummaryLists ==
    {ArrayOf(<<>>),
     ArrayOf(<<ArtistSummary(SlugAt[1], 1)>>),
     ArrayOf(<<ArtistSummary(SlugAt[3], 2), ArtistSummary(SlugAt[2], 1)>>)}

\* ---------------------------------------------------------- data gateway
\* The gateway's data (api/events.ts, api/artists.ts) and its four
\* operations.  Each operation returns a promise and starts a timer; the
\* timer callback looks the identifier up and settles the promise.

\* An EventDetails record of the data source (name, host and dates play no
\* part in the logic).
MockEvent(slug, seats, seatsAvailable) ==
    [kind |-> "object", slug |-> Str(slug), seats |-> seats,
     seatsAvailable |-> seatsAvailable]

\* An Artist record of the data source, reduced to its slug and its event.
MockArtist(slug, eventId) ==
    [kind |-> "object", slug |-> Str(slug), eventId |-> Str(eventId)]

\* Mutant of MockEventData: an event is listed as current and as upcoming.
MockEventDataTwice ==
    [kind |-> "object",
     current |-> ArrayOf(<<MockEvent("event-1", 10, 5), MockEvent("event-2", 11, 4),
                           MockEvent("event-3", 4, 4)>>),
     upcoming |-> ArrayOf(<<MockEvent("event-4", 1, 0), MockEvent("event-2", 12, 0),
                            MockEvent("event-6", 3, 0)>>),
     past |-> ArrayOf(<<>>)]

\* export const MockEventData: EventsData
MockEventData ==
    [kind |-> "object",
     current |-> ArrayOf(<<MockEvent("event-1", 10, 5), MockEvent("event-2", 11, 4),
                           MockEvent("event-3", 4, 4)>>),
     upcoming |-> ArrayOf(<<MockEvent("event-4", 1, 0), MockEvent("event-5", 12, 0),
                            MockEvent("event-6", 3, 0)>>),
     past |-> ArrayOf(<<>>)]

\* Object.entries(MockEventData): the keys in insertion order.
EntryKeys == <<"current", "upcoming", "past">>

\* export const MockArtistData: Artist[]
MockArtistData ==
    ArrayOf(<<MockArtist("luna-starweaver", "event-1"),
              MockArtist("crimson-paws", "event-1"),
              MockArtist("crimson-2", "event-1"),
              MockArtist("neon-tail-studios", "event-2"),
              MockArtist("whisker-dreams", "event-2"),
              MockArtist("iron-claw-art", "event-2"),
              MockArtist("mystic-forest", "event-3"),
              MockArtist("pixel-pounce", "event-3"),
              MockArtist("aurora-wings", "event-4"),
              MockArtist("sketch-and-snout", "event-4"),
              MockArtist("prism-fur-co", "event-5"),
              MockArtist("midnight-howl", "event-5"),
              MockArtist("sunny-scales", "event-5"),
              MockArtist("velvet-brush", "event-6"),
              MockArtist("wild-strokes", "event-6")>>)

\* new Error(message)
Error(message) == [kind |-> "error", message |-> message]

\* arr.find(x => x.slug === slug): the first element with the slug, or
\* undefined.
FindBySlug(arr, slug) ==
    LET hits == {i \in 1..Length(arr) : arr.items[i].slug = Str(slug)}
    IN  IF hits = {} THEN Undefined
        ELSE arr.items[CHOOSE i \in hits : \A j \in hits : i <= j]

\* new Promise(executor) of operation op called with arg, its timer started.
NewPromise(op, arg) ==
    [op |-> op, arg |-> arg, state |-> "pending", value |-> Undefined,
     timer |-> TRUE, settleCalls |-> 0]

\* resolve(value): settles a pending promise, has no effect on a settled one.
resolve(promise, value) ==
    IF promise.state = "pending"
    THEN [promise EXCEPT !.state = "fulfilled", !.value = value,
                         !.settleCalls = @ + 1]
    ELSE [promise EXCEPT !.settleCalls = @ + 1]

\* reject(reason)
reject(promise, reason) ==
    IF promise.state = "pending"
    THEN [promise EXCEPT !.state = "rejected", !.value = reason,
                         !.settleCalls = @ + 1]
    ELSE [promise EXCEPT !.settleCalls = @ + 1]

\* What a timer callback leaves behind: the promise, and the error it threw
\* (null if it returned normally).
Returned(promise) == [promise |-> promise, thrown |-> Null]
Threw(promise, error) == [promise |-> promise, thrown |-> error]

\* fetchAllEvents: setTimeout(() => resolve(MockEventData), 5000)
fetchAllEventsTimeout(promise) == Returned(resolve(promise, MockEventData))

\* The for loop of the timer callback of fetchEvent, from entry k on:
\* every list is searched, each hit calls resolve.
RECURSIVE fetchEventLoop(_, _)
fetchEventLoop(promise, k) ==
    IF k > Len(EntryKeys) THEN promise
    ELSE LET event == FindBySlug(MockEventData[EntryKeys[k]], promise.arg)
         IN  fetchEventLoop(IF event # Undefined THEN resolve(promise, event)
                            ELSE promise,
                            k + 1)

\* fetchEvent: the timer callback runs the loop and then throws; the
\* executor takes no reject parameter, the throw leaves the callback.
fetchEventTimeout(promise) ==
    Threw(fetchEventLoop(promise, 1), Error("Event Not Found"))

\* MockArtistData.filter(artist => artist.eventId === eventId)
FilterByEvent(arr, eventId) ==
    ArrayOf(SelectSeq(arr.items, LAMBDA artist : artist.eventId = Str(eventId)))

\* artists.map((artist, index) => ({..., slug: artist.slug, seat: index + 2}))
MapToSummaries(arr) ==
    ArrayOf([j \in 1..Length(arr) |->
                ArtistSummary(arr.items[j].slug.str, (j - 1) + 2)])

\* fetchEventArtists: the timer callback filters, maps and resolves.
fetchEventArtistsTimeout(promise) ==
    Returned(resolve(promise,
                     MapToSummaries(FilterByEvent(MockArtistData, promise.arg))))

\* Mutant of fetchArtistTimeout: no reject branch (the shape of fetchEvent).
fetchArtistTimeoutNoReject(promise) ==
    LET artist == FindBySlug(MockArtistData, promise.arg)
    IN  IF artist # Undefined THEN Returned(resolve(promise, artist))
        ELSE Returned(promise)

\* fetchArtist: the timer callback resolves with the artist found, or
\* rejects.
fetchArtistTimeout(promise) ==
    LET artist == FindBySlug(MockArtistData, promise.arg)
    IN  IF artist # Undefined THEN Returned(resolve(promise, artist))
        ELSE Returned(reject(promise, Error("Artist Not Found")))

\* The timer callback of a promise's operation.
timeout(promise) ==
    CASE promise.op = "fetchAllEvents" -> fetchAllEventsTimeout(promise)
      [] promise.op = "fetchEvent" -> fetchEventTimeout(promise)
      [] promise.op = "fetchEventArtists" -> fetchEventArtistsTimeout(promise)
      [] promise.op = "fetchArtist" -> fetchArtistTimeout(promise)

\* The timer of a promise fires: the callback has run, the timer is gone.
Fired(promise) ==
    [timeout(promise) EXCEPT !.promise.timer = FALSE]

\* The query client holds no query: new QueryClient().
EmptyCache == [key \in {} |-> Undefined]

\* ------------------------------------------------------------------ Init
\* No gateway operation has been called.
NoGatewayCalls ==
    /\ promises = <<>>
    /\ uncaught = {}

\* A DoubleClickButton as its component function leaves it:
\* let timeoutId; createSignal(false).
ButtonRendered ==
    /\ confirming = FALSE
    /\ timeoutId = Undefined
    /\ timers = {}
    /\ timerSeq = 0
    /\ buttonMounted = TRUE
    /\ clicks = 0
    /\ onConfirmCalls = 0
    /\ lastExit = "none"

\* The tab is opened on a URL of the application; nothing is fetched yet.
Init ==
    /\ build \in {"index", "layout"}
    /\ \E loc \in Locations : history = <<loc>>
    /\ histIdx = 1
    /\ mounted = FALSE
    /\ selectedArtist = Null
    /\ eventQuery = [e \in EventIds |-> Undefined]
    /\ summaryQuery = [e \in EventIds |-> Undefined]
    /\ artistSeats = Null
    /\ fetchedEvent = [e \in EventIds |-> Undefined]
    /\ fetchedSummary = [e \in EventIds |-> Undefined]
    /\ lastCall = Undefined
    /\ prevCall = Undefined
    /\ leftWith = <<Undefined>>
    /\ superseded = FALSE
    /\ NoGatewayCalls
    /\ cache = EmptyCache
    /\ issued = {}
    /\ focused = TRUE
    /\ polled = {}
    /\ ButtonRendered

\* --------------------------------------------------------------- actions
\* CurrentEventComponent renders <CurrentEvent eventId=.../> for the event of
\* the location: the selection is seeded from the search, the two queries
\* read the cache and the memo is evaluated.
MountView ==
    /\ UNCHANGED <<gatewayVars, queryVars, buttonVars>>
    /\ ~mounted
    /\ location.path = EventPath
    /\ LET e == location.eventId
           run == artistSeatsMemo(eventQuery[e], summaryQuery[e])
       IN  /\ eventQuery' = [eventQuery EXCEPT ![e] = run.eventData]
           /\ summaryQuery' = [summaryQuery EXCEPT ![e] = run.eventArtistSummary]
           /\ artistSeats' = run.value
    /\ mounted' = TRUE
    /\ selectedArtist' = initialSelection
    /\ UNCHANGED <<build, history, histIdx, fetchedEvent, fetchedSummary,
                   lastCall, prevCall, leftWith, superseded>>

\* A fetchEvent result (first fetch or poll) arrives for the mounted view:
\* the query data changes and the memo re-runs.
EventResult(data) ==
    /\ UNCHANGED <<gatewayVars, queryVars, buttonVars>>
    /\ mounted
    /\ LET e == location.eventId
           run == artistSeatsMemo(data, summaryQuery[e])
       IN  /\ eventQuery' = [eventQuery EXCEPT ![e] = run.eventData]
           /\ summaryQuery' = [summaryQuery EXCEPT ![e] = run.eventArtistSummary]
           /\ artistSeats' = run.value
           /\ fetchedEvent' = [fetchedEvent EXCEPT ![e] = data]
           /\ superseded' = (artistSeats # Null /\ data.seats < Length(artistSeats))
    /\ UNCHANGED <<build, history, histIdx, mounted, selectedArtist,
                   fetchedSummary, lastCall, prevCall, leftWith>>

\* Mutant of SummaryResult: a selected artist who holds no seat in the
\* fresh list is deselected.
SummaryResultDeselect(data) ==
    /\ UNCHANGED <<gatewayVars, queryVars, buttonVars>>
    /\ mounted
    /\ LET e == location.eventId
           run == artistSeatsMemo(eventQuery[e], data)
       IN  /\ eventQuery' = [eventQuery EXCEPT ![e] = run.eventData]
           /\ summaryQuery' = [summaryQuery EXCEPT ![e] = run.eventArtistSummary]
           /\ artistSeats' = run.value
           /\ fetchedSummary' = [fetchedSummary EXCEPT ![e] = data]
           /\ superseded' = (artistSeats # Null /\ Occupants(artistSeats) \ Elements(data) # {})
           /\ selectedArtist' =
                 IF \E j \in 1..Length(data) : data.items[j].slug = selectedArtist
                 THEN selectedArtist ELSE [kind |-> "null"]
    /\ UNCHANGED <<build, history, histIdx, mounted,
                   fetchedEvent, lastCall, prevCall, leftWith>>

\* A fetchEventArtists result arrives for the mounted view.
SummaryResult(data) ==
    /\ UNCHANGED <<gatewayVars, queryVars, buttonVars>>
    /\ mounted
    /\ LET e == location.eventId
           run == artistSeatsMemo(eventQuery[e], data)
       IN  /\ eventQuery' = [eventQuery EXCEPT ![e] = run.eventData]
           /\ summaryQuery' = [summaryQuery EXCEPT ![e] = run.eventArtistSummary]
           /\ artistSeats' = run.value
           /\ fetchedSummary' = [fetchedSummary EXCEPT ![e] = data]
           /\ superseded' = (artistSeats # Null /\ Occupants(artistSeats) \ Elements(data) # {})
    /\ UNCHANGED <<build, history, histIdx, mounted, selectedArtist,
                   fetchedEvent, lastCall, prevCall, leftWith>>

\* Mutant of optionalSlug: the row passes nothing on (every click clears).
optionalSlugNone(artist) == [kind |-> "undefined"]

\* artist?.slug
optionalSlug(artist) ==
    IF artist \in {Null, Undefined, Hole} THEN Undefined ELSE artist.slug

\* onClick of the seat row of slot i (0-based i - 1):
\* updateSelectedArtist(artist?.slug || null).  The row of a hole of a
\* sparse seat array cannot be rendered (props.artist!.seat of undefined),
\* so there is no such row to click.
ClickSeat(i) ==
    /\ UNCHANGED <<gatewayVars, queryVars, buttonVars>>
    /\ mounted
    /\ artistSeats # Null
    /\ i \in 1..Length(artistSeats)
    /\ artistSeats.items[i] # Hole
    /\ updateSelectedArtist(Or(optionalSlug(artistSeats.items[i]), Null))
    /\ UNCHANGED <<build, mounted, eventQuery, summaryQuery, artistSeats,
                   fetchedEvent, fetchedSummary, superseded>>

\* The CurrentEvent instance, if there is one, is disposed: its signal and
\* its memo go away; the query cache stays.
Unmount ==
    /\ mounted' = FALSE
    /\ selectedArtist' = Null
    /\ artistSeats' = Null
    /\ lastCall' = Undefined
    /\ prevCall' = Undefined
    /\ superseded' = FALSE

\* The entry being left remembers the selection its view had.
leftNow == IF mounted THEN [leftWith EXCEPT ![histIdx] = selectedArtist] ELSE leftWith

\* The search an event row of the events list navigates with:
\* search: {artist: ""} in the list that goes with events_.$eventId.index.tsx,
\* none in the list that goes with events_.$eventId.tsx.
openEventSearch ==
    IF build = "index" THEN [artist |-> Str("")] ELSE [artist |-> Undefined]

\* Click on an event of the events list:
\* navigate({to: '/events/$eventId', params: {eventId: event.slug}, ...}).
OpenEvent(e) ==
    /\ UNCHANGED <<gatewayVars, queryVars, buttonVars>>
    /\ location.path = EventsPath
    /\ histIdx < MaxHist
    /\ history' = Append(SubSeq(history, 1, histIdx), EventLocation(e, openEventSearch))
    /\ leftWith' = Append(SubSeq(leftNow, 1, histIdx), Undefined)
    /\ histIdx' = histIdx + 1
    /\ Unmount
    /\ UNCHANGED <<build, eventQuery, summaryQuery, fetchedEvent, fetchedSummary>>

\* The "Events" link of the header: <Link to="/events">.
GoToEvents ==
    /\ UNCHANGED <<gatewayVars, queryVars, buttonVars>>
    /\ location.path = EventPath
    /\ histIdx < MaxHist
    /\ history' = Append(SubSeq(history, 1, histIdx), EventsLocation)
    /\ leftWith' = Append(SubSeq(leftNow, 1, histIdx), Undefined)
    /\ histIdx' = histIdx + 1
    /\ Unmount
    /\ UNCHANGED <<build, eventQuery, summaryQuery, fetchedEvent, fetchedSummary>>

\* The browser's back button.
Back ==
    /\ UNCHANGED <<gatewayVars, queryVars, buttonVars>>
    /\ histIdx > 1
    /\ histIdx' = histIdx - 1
    /\ leftWith' = leftNow
    /\ Unmount
    /\ UNCHANGED <<build, history, eventQuery, summaryQuery, fetchedEvent,
                   fetchedSummary>>

\* The browser's forward button.
Forward ==
    /\ UNCHANGED <<gatewayVars, queryVars, buttonVars>>
    /\ histIdx < Len(history)
    /\ histIdx' = histIdx + 1
    /\ leftWith' = leftNow
    /\ Unmount
    /\ UNCHANGED <<build, history, eventQuery, summaryQuery, fetchedEvent,
                   fetchedSummary>>

\* The page is reloaded: the application starts again on the same URL with
\* an empty query cache (const queryClient = new QueryClient()).
Reload ==
    /\ UNCHANGED <<gatewayVars, queryVars, buttonVars>>
    /\ leftWith' = leftNow
    /\ Unmount
    /\ eventQuery' = [e \in EventIds |-> Undefined]
    /\ summaryQuery' = [e \in EventIds |-> Undefined]
    /\ fetchedEvent' = [e \in EventIds |-> Undefined]
    /\ fetchedSummary' = [e \in EventIds |-> Undefined]
    /\ UNCHANGED <<build, history, histIdx>>

\* The page specification: navigation, selection and a few fetch results.
Next ==
    \/ MountView
    \/ \E data \in PageEventResults : EventResult(data)
    \/ \E data \in PageSummaryLists : SummaryResult(data)
    \/ \E i \in 1..(MaxSeats + 2) : ClickSeat(i)
    \/ \E e \in EventIds : OpenEvent(e)
    \/ GoToEvents
    \/ Back
    \/ Forward
    \/ Reload

Spec == Init /\ [][Next]_vars

\* The seat-view specification: the page of event-1 is open, results of any
\* content arrive in any order.
InitSeats ==
    /\ Init
    /\ build = "index"
    /\ history = <<EventLocation("event-1", [artist |-> Undefined])>>

NextSeats ==
    \/ MountView
    \/ \E data \in EventResults : EventResult(data)
    \/ \E data \in SummaryLists : SummaryResult(data)

SpecSeats == InitSeats /\ [][NextSeats]_vars

\* The selection specification: the page of a current event stays open,
\* results arrive and seat rows are clicked.
InitSelect ==
    /\ Init
    /\ location.path = EventPath

NextSelect ==
    \/ MountView
    \/ \E data \in PageEventResults : EventResult(data)
    \/ \E data \in PageSummaryLists : SummaryResult(data)
    \/ \E i \in 1..(MaxSeats + 2) : ClickSeat(i)

SpecSelect == InitSelect /\ [][NextSelect]_vars

\* ------------------------------------------------- the gateway on its own
\* The identifiers the gateway is called with: every slug of the data
\* source and one that is the slug of nothing.
EventSlugs ==
    UNION {{MockEventData[key].items[i].slug.str :
                i \in 1..Length(MockEventData[key])} :
           key \in {"current", "upcoming", "past"}}
ArtistSlugs == {MockArtistData.items[i].slug.str : i \in 1..Length(MockArtistData)}
GatewayEventArgs == EventSlugs \cup {"event-0"}
GatewayArtistArgs == ArtistSlugs \cup {"nobody"}

\* A gateway operation is called: it returns a new pending promise whose
\* timer is running.
Call(op, arg) ==
    /\ Len(promises) < MaxCalls
    /\ promises' = Append(promises, NewPromise(op, arg))
    /\ UNCHANGED <<uncaught, pageVars, queryVars, buttonVars>>

fetchAllEvents == Call("fetchAllEvents", "")
fetchEvent(eventId) == Call("fetchEvent", eventId)
fetchEventArtists(eventId) == Call("fetchEventArtists", eventId)
fetchArtist(artistId) == Call("fetchArtist", artistId)

\* An error that left a timer callback: nothing catches it, the event loop
\* reports it on the window.
Uncaught(promise, error) == [error |-> error, op |-> promise.op, arg |-> promise.arg]

\* The timer of the k-th promise fires and its callback runs.
TimerFires(k) ==
    /\ k \in 1..Len(promises)
    /\ promises[k].timer
    /\ LET ran == Fired(promises[k])
       IN  /\ promises' = [promises EXCEPT ![k] = ran.promise]
           /\ uncaught' = IF ran.thrown = Null THEN uncaught
                          ELSE uncaught \cup {Uncaught(promises[k], ran.thrown)}
    /\ UNCHANGED <<pageVars, queryVars, buttonVars>>

InitGateway ==
    /\ Init
    /\ build = "index"
    /\ history = <<EventsLocation>>

NextGateway ==
    \/ fetchAllEvents
    \/ \E eventId \in GatewayEventArgs : fetchEvent(eventId)
    \/ \E eventId \in GatewayEventArgs : fetchEventArtists(eventId)
    \/ \E artistId \in GatewayArtistArgs : fetchArtist(artistId)
    \/ \E k \in 1..MaxCalls : TimerFires(k)

SpecGateway == InitGateway /\ [][NextGateway]_vars

\* ------------------------------------------------------ DoubleClickButton
\* The button of the artist page.  setTimeout returns a fresh id and leaves
\* a pending timer; clearTimeout(id) removes the timer with that id and
\* does nothing for undefined or for an id that is no longer pending.
clearTimeout(pending, id) == pending \ {id}

\* {confirming() ? confirmText : initialText}
buttonText == IF confirming THEN "confirmText" ELSE "initialText"

\* Mutant of handleDoubleClick: a single click confirms (the first click
\* calls onConfirm as well).
handleDoubleClickSingle ==
    /\ buttonMounted
    /\ clicks < MaxClicks
    /\ clicks' = clicks + 1
    /\ onConfirmCalls' = onConfirmCalls + 1
    /\ IF confirming
       THEN /\ confirming' = FALSE
            /\ timers' = clearTimeout(timers, timeoutId)
            /\ lastExit' = "click"
            /\ UNCHANGED <<timeoutId, timerSeq>>
       ELSE /\ confirming' = TRUE
            /\ timerSeq' = timerSeq + 1
            /\ timeoutId' = Num(timerSeq + 1)
            /\ timers' = timers \cup {Num(timerSeq + 1)}
            /\ UNCHANGED lastExit
    /\ UNCHANGED <<buttonMounted, pageVars, gatewayVars, queryVars>>

\* Mutant of handleDoubleClick: the confirming branch does not clear the
\* timer.
handleDoubleClickNoClear ==
    /\ buttonMounted
    /\ clicks < MaxClicks
    /\ clicks' = clicks + 1
    /\ IF confirming
       THEN /\ onConfirmCalls' = onConfirmCalls + 1
            /\ confirming' = FALSE
            /\ lastExit' = "click"
            /\ UNCHANGED <<timers, timeoutId, timerSeq>>
       ELSE /\ confirming' = TRUE
            /\ timerSeq' = timerSeq + 1
            /\ timeoutId' = Num(timerSeq + 1)
            /\ timers' = timers \cup {Num(timerSeq + 1)}
            /\ UNCHANGED <<onConfirmCalls, lastExit>>
    /\ UNCHANGED <<buttonMounted, pageVars, gatewayVars, queryVars>>

\* onClick={handleDoubleClick}: a click on the rendered button.
handleDoubleClick ==
    /\ buttonMounted
    /\ clicks < MaxClicks
    /\ clicks' = clicks + 1
    /\ IF confirming
       THEN /\ onConfirmCalls' = onConfirmCalls + 1
            /\ confirming' = FALSE
            /\ timers' = clearTimeout(timers, timeoutId)
            /\ lastExit' = "click"
            /\ UNCHANGED <<timeoutId, timerSeq>>
       ELSE /\ confirming' = TRUE
            /\ timerSeq' = timerSeq + 1
            /\ timeoutId' = Num(timerSeq + 1)
            /\ timers' = timers \cup {Num(timerSeq + 1)}
            /\ UNCHANGED <<onConfirmCalls, lastExit>>
    /\ UNCHANGED <<buttonMounted, pageVars, gatewayVars, queryVars>>

\* Mutant of TimeoutFires: the timer callback does nothing.
TimeoutFiresNoReset(id) ==
    /\ id \in timers
    /\ timers' = timers \ {id}
    /\ UNCHANGED <<confirming, lastExit, timeoutId, timerSeq, buttonMounted,
                   clicks, onConfirmCalls, pageVars, gatewayVars, queryVars>>

\* The timer with the id fires after its 5000 ms:
\* () => setConfirming(false).
TimeoutFires(id) ==
    /\ id \in timers
    /\ timers' = timers \ {id}
    /\ confirming' = FALSE
    /\ lastExit' = IF confirming THEN "timeout" ELSE lastExit
    /\ UNCHANGED <<timeoutId, timerSeq, buttonMounted, clicks, onConfirmCalls,
                   pageVars, gatewayVars, queryVars>>

\* The component is disposed: onCleanup(() => clearTimeout(timeoutId)).
\* The signal is not written; the button is no longer rendered.
onCleanup ==
    /\ buttonMounted
    /\ buttonMounted' = FALSE
    /\ timers' = clearTimeout(timers, timeoutId)
    /\ lastExit' = IF confirming THEN "unmount" ELSE lastExit
    /\ UNCHANGED <<confirming, timeoutId, timerSeq, clicks, onConfirmCalls,
                   pageVars, gatewayVars, queryVars>>

\* The artist page has rendered its button.
InitButton ==
    /\ Init
    /\ build = "index"
    /\ history = <<EventsLocation>>

NextButton ==
    \/ handleDoubleClick
    \/ \E n \in 1..MaxClicks : TimeoutFires(Num(n))
    \/ onCleanup

SpecButton == InitButton /\ [][NextButton]_vars

\* The event loop runs the callback of every timer that stays pending.
SpecButtonFair ==
    SpecButton /\ WF_vars(\E n \in 1..MaxClicks : TimeoutFires(Num(n)))

\* --------------------------------------------------------- query client
\* The one QueryClient of the application keeps a query per query key.  A
\* query holds the data of its last successful fetch, the error of its last
\* failed one, and the promise of the fetch in flight, if any.  The keys
\* are arrays of strings: ['events'], [eventId], [eventId, 'artist summary']
\* and [artistId].
NoQuery == [data |-> Undefined, error |-> Null, promise |-> Undefined]

QueryAt(c, key) == IF key \in DOMAIN c THEN c[key] ELSE NoQuery

SetQuery(c, key, query) ==
    [k \in DOMAIN c \cup {key} |-> IF k = key THEN query ELSE c[k]]

\* The part of the application's state a rendering works on.
World == [cache |-> cache, issued |-> issued, mounted |-> mounted,
          selectedArtist |-> selectedArtist, artistSeats |-> artistSeats]

\* useQuery(() => ({queryKey: key, queryFn: () => op(arg), ...})) when its
\* observer is created or its key changes: the data in the cache is stale
\* at once (no staleTime), so the query function is called, unless a fetch
\* of the query is in flight, which the observer then shares.
useQuery(w, key, op, arg) ==
    IF QueryAt(w.cache, key).promise # Undefined THEN w
    ELSE [w EXCEPT
            !.cache = SetQuery(w.cache, key,
                        [QueryAt(w.cache, key) EXCEPT !.promise = NewPromise(op, arg)]),
            !.issued = @ \cup {<<op, arg>>}]

\* The fetch in flight has run its timer callback: a fulfilled promise
\* becomes the data of the query, a rejected one its error (the data stays);
\* a promise the callback left pending keeps the query fetching.
Settled(query, promise) ==
    CASE promise.state = "fulfilled" ->
            [data |-> promise.value, error |-> Null, promise |-> Undefined]
      [] promise.state = "rejected" ->
            [data |-> query.data, error |-> promise.value, promise |-> Undefined]
      [] promise.state = "pending" ->
            [query EXCEPT !.promise = promise]

\* Mutant of eventDataMemo: a slug found in no list is taken for a current
\* event.
eventDataMemoAssumeCurrent(allEventsData, eventId) ==
    IF Falsy(allEventsData) THEN Null
    ELSE LET found == {k \in 1..Len(EntryKeys) :
                         FindBySlug(allEventsData[EntryKeys[k]], eventId) # Undefined}
         IN  IF found = {}
             THEN [kind |-> "object", event |-> MockEvent(eventId, 0, 0),
                   key |-> Str("current")]
             ELSE LET k == CHOOSE j \in found : \A i \in found : j <= i
                  IN  [kind |-> "object",
                       event |-> FindBySlug(allEventsData[EntryKeys[k]], eventId),
                       key |-> Str(EntryKeys[k])]

\* The eventData memo of CurrentEventComponent: the event with the slug and
\* the key of the first list that holds it, or null.
eventDataMemo(allEventsData, eventId) ==
    IF Falsy(allEventsData) THEN Null
    ELSE LET found == {k \in 1..Len(EntryKeys) :
                         FindBySlug(allEventsData[EntryKeys[k]], eventId) # Undefined}
         IN  IF found = {} THEN Null
             ELSE LET k == CHOOSE j \in found : \A i \in found : j <= i
                  IN  [kind |-> "object",
                       event |-> FindBySlug(allEventsData[EntryKeys[k]], eventId),
                       key |-> Str(EntryKeys[k])]

\* A property read of null or undefined throws.
TypeError == Error("TypeError")

\* eventData()?.key
optionalKey(eventData) ==
    IF eventData \in {Null, Undefined} THEN Undefined ELSE eventData.key

\* eventData()?.event.slug (for the name, host and dates the page shows)
optionalEvent(eventData) ==
    IF eventData \in {Null, Undefined} THEN Undefined ELSE eventData.event.slug

\* Mutant of matchBranch: the seat view is rendered for every event found,
\* whatever list holds it.
matchBranchAnyList(eventData) ==
    IF optionalKey(eventData) = [kind |-> "undefined"] THEN "none" ELSE "current"

\* The branch of the <Switch> of CurrentEventComponent that is rendered.
matchBranch(eventData) ==
    CASE optionalKey(eventData) = Str("current") -> "current"
      [] optionalKey(eventData) = Str("upcoming") -> "upcoming"
      [] optionalKey(eventData) = Str("past") -> "past"
      [] OTHER -> "none"

\* What CurrentEventComponent renders from the cache at a location.
CurrentEventComponentView(c, loc) ==
    LET eventData == eventDataMemo(QueryAt(c, <<"events">>).data, loc.eventId)
    IN  [heading |-> optionalEvent(eventData), branch |-> matchBranch(eventData)]

\* The artistSeats memo of the view of event e over the cache.
seatsOf(c, e) ==
    artistSeatsMemo(QueryAt(c, <<e>>).data,
                    QueryAt(c, <<e, "artist summary">>).data).value

\* <ArtistDetails artistId={selectedArtist()!} /> inside
\* <Show when={selectedArtist()}>: its query observes [artistId].
showArtistDetails(w, artist) ==
    IF Falsy(artist) THEN w
    ELSE useQuery(w, <<artist.str>>, "fetchArtist", artist.str)

\* <CurrentEvent eventId={e} /> is created: the selection is seeded, then
\* the queries of the seat view and of the details panel are created in
\* the order of the markup.
mountCurrentEvent(w, e, seed) ==
    LET seatView == useQuery(useQuery(w, <<e>>, "fetchEvent", e),
                             <<e, "artist summary">>, "fetchEventArtists", e)
        all == showArtistDetails(seatView, seed)
    IN  [all EXCEPT !.mounted = TRUE, !.selectedArtist = seed,
                    !.artistSeats = seatsOf(all.cache, e)]

\* The page re-renders at location loc: the current branch keeps or
\* creates CurrentEvent (seeded with seed), any other branch has none.
render(w, loc, seed) ==
    IF loc.path = EventPath /\ CurrentEventComponentView(w.cache, loc).branch = "current"
    THEN IF w.mounted
         THEN [w EXCEPT !.artistSeats = seatsOf(w.cache, loc.eventId)]
         ELSE mountCurrentEvent(w, loc.eventId, seed)
    ELSE [w EXCEPT !.mounted = FALSE, !.selectedArtist = Null, !.artistSeats = Null]

\* The route component of loc is created over the cache as it is: the
\* events list and the event page both observe ['events'].
enterRoute(w, loc, seed) ==
    render(useQuery([w EXCEPT !.mounted = FALSE], <<"events">>, "fetchAllEvents", ""),
           loc, seed)

\* The next state takes the rendering's outcome.
Becomes(w) ==
    /\ cache' = w.cache
    /\ issued' = w.issued
    /\ mounted' = w.mounted
    /\ artistSeats' = w.artistSeats

\* --------------------------------------------- the pages and their queries
\* The events the list is clicked on, and the URLs the tab is opened with:
\* current events, an upcoming one, a slug of no event, and links whose
\* `artist` is an artist of the event or a pasted value.
ListedEventIds == {"event-1", "event-2", "event-4"}
QueryLocations ==
    {EventsLocation}
    \cup {EventLocation(e, [artist |-> Undefined]) :
            e \in ListedEventIds \cup {"event-0"}}
    \cup {EventLocation("event-1", [artist |-> Str(a)]) :
            a \in PastedArtists \cup {SlugAt[1]}}

\* The application is loaded on a URL: the route component observes
\* ['events'] over the empty cache; nothing else is rendered yet.
InitQueries ==
    /\ build \in {"index", "layout"}
    /\ \E loc \in QueryLocations : history = <<loc>>
    /\ histIdx = 1
    /\ selectedArtist = Null
    /\ eventQuery = [e \in EventIds |-> Undefined]
    /\ summaryQuery = [e \in EventIds |-> Undefined]
    /\ fetchedEvent = [e \in EventIds |-> Undefined]
    /\ fetchedSummary = [e \in EventIds |-> Undefined]
    /\ lastCall = Undefined
    /\ prevCall = Undefined
    /\ leftWith = <<Undefined>>
    /\ superseded = FALSE
    /\ NoGatewayCalls
    /\ ButtonRendered
    /\ LET w == enterRoute([cache |-> EmptyCache, issued |-> {}, mounted |-> FALSE,
                            selectedArtist |-> Null, artistSeats |-> Null],
                           history[1], Null)
       IN  /\ cache = w.cache
           /\ issued = w.issued
           /\ mounted = w.mounted
           /\ focused = TRUE
           /\ polled = {}
           /\ artistSeats = w.artistSeats

\* The timer of the fetch in flight of a query fires: the gateway's
\* callback runs, the query takes the outcome and the page re-renders.
QueryTimerFires(key) ==
    /\ key \in DOMAIN cache
    /\ cache[key].promise # Undefined
    /\ cache[key].promise.timer
    /\ LET ran == Fired(cache[key].promise)
           w == render([World EXCEPT
                          !.cache = SetQuery(cache, key,
                                             Settled(cache[key], ran.promise))],
                       location, initialSelection)
       IN  /\ Becomes(w)
           /\ selectedArtist' = w.selectedArtist
           /\ uncaught' = IF ran.thrown = Null THEN uncaught
                          ELSE uncaught \cup {Uncaught(cache[key].promise, ran.thrown)}
    /\ UNCHANGED <<build, history, histIdx, eventQuery, summaryQuery, fetchedEvent,
                   fetchedSummary, lastCall, prevCall, leftWith, superseded,
                   promises, focused, polled, buttonVars>>

\* The views of the page left are disposed and the route component of the
\* new location is created.
Arrive ==
    LET w == enterRoute(World, location', initialSelection')
    IN  /\ Becomes(w)
        /\ selectedArtist' = w.selectedArtist
        /\ leftWith' = leftWith
        /\ UNCHANGED <<focused, polled>>
        /\ lastCall' = Undefined
        /\ prevCall' = Undefined
        /\ superseded' = FALSE

\* Click on a row of the events list, which is rendered from the data of
\* ['events'].
VisitEvent(e) ==
    /\ location.path = EventsPath
    /\ histIdx < MaxVisits
    /\ eventDataMemo(QueryAt(cache, <<"events">>).data, e) # Null
    /\ UNCHANGED <<build, eventQuery, summaryQuery, fetchedEvent, fetchedSummary,
                   gatewayVars, buttonVars>>
    /\ history' = Append(SubSeq(history, 1, histIdx), EventLocation(e, openEventSearch))
    /\ histIdx' = histIdx + 1
    /\ Arrive

\* The "Events" link of the header.
VisitEvents ==
    /\ location.path = EventPath
    /\ histIdx < MaxVisits
    /\ UNCHANGED <<build, eventQuery, summaryQuery, fetchedEvent, fetchedSummary,
                   gatewayVars, buttonVars>>
    /\ history' = Append(SubSeq(history, 1, histIdx), EventsLocation)
    /\ histIdx' = histIdx + 1
    /\ Arrive

\* The browser's back and forward buttons, within the loaded application.
VisitBack ==
    /\ histIdx > 1
    /\ UNCHANGED <<build, history, eventQuery, summaryQuery, fetchedEvent,
                   fetchedSummary, gatewayVars, buttonVars>>
    /\ histIdx' = histIdx - 1
    /\ Arrive

VisitForward ==
    /\ histIdx < Len(history)
    /\ UNCHANGED <<build, history, eventQuery, summaryQuery, fetchedEvent,
                   fetchedSummary, gatewayVars, buttonVars>>
    /\ histIdx' = histIdx + 1
    /\ Arrive

NextQueries ==
    \/ \E key \in DOMAIN cache : QueryTimerFires(key)
    \/ \E e \in ListedEventIds : VisitEvent(e)
    \/ VisitEvents
    \/ VisitBack
    \/ VisitForward

SpecQueries == InitQueries /\ [][NextQueries]_vars

\* ----------------------------------------------------------------- polling
\* The queries of the seat view and of the details panel are created with
\* refetchInterval: 1000 * 60, so each of their observers runs an interval
\* timer while it exists.  The interval callback fetches the query again
\* when the page is visible or refetchIntervalInBackground is set; a fetch
\* that is in flight is shared, not doubled.

\* Mutant of refetchIntervalInBackground: the option is left out.
refetchIntervalInBackgroundUnset == FALSE

\* refetchIntervalInBackground: true
refetchIntervalInBackground == TRUE

\* The interval callback of the observer of key, whose query function is
\* op(arg).
IntervalFires(key, op, arg) ==
    /\ refetchIntervalInBackground \/ focused
    /\ QueryAt(cache, key).promise = Undefined
    /\ LET w == useQuery(World, key, op, arg)
       IN  /\ cache' = w.cache
           /\ issued' = w.issued
    /\ polled' = polled \cup {<<op, arg, focused>>}
    /\ UNCHANGED <<pageVars, gatewayVars, focused, buttonVars>>

\* The interval of the eventData query of the seat view.
PollEvent ==
    /\ mounted
    /\ IntervalFires(<<location.eventId>>, "fetchEvent", location.eventId)

\* The interval of the eventArtistSummary query of the seat view.
PollSummary ==
    /\ mounted
    /\ IntervalFires(<<location.eventId, "artist summary">>, "fetchEventArtists",
                     location.eventId)

\* The interval of the artistData query of the details panel, which exists
\* while the selection is truthy.
PollArtist ==
    /\ mounted
    /\ ~Falsy(selectedArtist)
    /\ IntervalFires(<<selectedArtist.str>>, "fetchArtist", selectedArtist.str)

\* The page goes to the background (another tab is shown).
Hide ==
    /\ focused
    /\ focused' = FALSE
    /\ UNCHANGED <<pageVars, gatewayVars, cache, issued, polled, buttonVars>>

\* The queries that have an observer: ['events'] of the route component
\* and, while CurrentEvent exists, those of the seat view and of the
\* details panel.  Each is fetched unless a fetch of it is in flight.
refetchObserved(w, loc) ==
    LET all == useQuery(w, <<"events">>, "fetchAllEvents", "")
    IN  IF w.mounted
        THEN showArtistDetails(
                useQuery(useQuery(all, <<loc.eventId>>, "fetchEvent", loc.eventId),
                         <<loc.eventId, "artist summary">>, "fetchEventArtists",
                         loc.eventId),
                w.selectedArtist)
        ELSE all

\* The page becomes visible again: no query sets refetchOnWindowFocus, so
\* every observed query, stale at once, is fetched again.
Show ==
    /\ ~focused
    /\ focused' = TRUE
    /\ LET w == refetchObserved(World, location)
       IN  /\ cache' = w.cache
           /\ issued' = w.issued
    /\ UNCHANGED <<pageVars, gatewayVars, polled, buttonVars>>

\* The query keys of the pages of the model.
QueryKeys ==
    {<<"events">>}
    \cup {<<e>> : e \in ListedEventIds \cup {"event-0"}}
    \cup {<<e, "artist summary">> : e \in ListedEventIds \cup {"event-0"}}
    \cup {<<a>> : a \in PastedArtists \cup {SlugAt[1]}}

\* The tab is opened on the page of a current event, with or without an
\* `artist` in the URL.  The page is the one built from EventSeats and
\* ArtistDetails; the queries of events_.$eventId.tsx carry the same options.
InitPolling ==
    /\ InitQueries
    /\ build = "index"
    /\ location.path = EventPath
    /\ location.eventId = "event-1"

\* The page with its interval timers and the visibility of the tab; the
\* view is left for the events list and entered again.
NextPolling ==
    \/ \E key \in QueryKeys : QueryTimerFires(key)
    \/ PollEvent
    \/ PollSummary
    \/ PollArtist
    \/ Hide
    \/ Show
    \/ VisitEvents
    \/ VisitBack

SpecPolling == InitPolling /\ [][NextPolling]_vars

\* The timer of the fetch in flight of a query is running: the enabling
\* condition of QueryTimerFires(key), which always changes the query.
TimerDue(key) ==
    /\ key \in DOMAIN cache
    /\ cache[key].promise # Undefined
    /\ cache[key].promise.timer

\* The keys the page of the polling specification fetches under.
PolledKeys ==
    {<<"event-1">>, <<"event-1", "artist summary">>}
    \cup {<<a>> : a \in PastedArtists \cup {SlugAt[1]}}

\* The event loop runs every timer that stays due: the timer of a fetch in
\* flight (weak fairness of QueryTimerFires(key), its ENABLED written as
\* TimerDue(key)) and the interval timer of an observer.
SpecPollingFair ==
    /\ SpecPolling
    /\ \A key \in PolledKeys :
          []<>(~TimerDue(key)) \/ []<><<QueryTimerFires(key)>>_vars
    /\ WF_vars(PollEvent)
    /\ WF_vars(PollSummary)
    /\ WF_vars(PollArtist)

\* ============================================================== claims
\* The event the mounted view shows, and the latest payloads of its queries.
viewEvent == location.eventId
latestEvent == fetchedEvent[viewEvent]
latestSummary == fetchedSummary[viewEvent]

\* Both results have arrived for the mounted view.
BothArrived == mounted /\ latestEvent # Undefined /\ latestSummary # Undefined

\* The seat numbers of a list are pairwise distinct and lie in 1..n.
UniqueInRange(list, n) ==
    /\ \A j \in 1..Length(list) : list.items[j].seat \in 1..n
    /\ \A j, k \in 1..Length(list) :
          j # k => list.items[j].seat # list.items[k].seat

\* The positions of a list whose summary claims seat k.
Claimants(list, k) == {j \in 1..Length(list) : list.items[j].seat = k}

Last(S) == CHOOSE j \in S : \A k \in S : k <= j

\* C1: for a capacity N >= 0 and a list with pairwise distinct seats in
\* [1,N], the derived sequence has length exactly N and slot i holds the
\* summary whose seat is i+1 if there is one, and null otherwise.
C1_SeatDerivation ==
    (BothArrived /\ UniqueInRange(latestSummary, latestEvent.seats)) =>
        /\ artistSeats # Null
        /\ Length(artistSeats) = latestEvent.seats
        /\ artistSeats.props = {}
        /\ \A i \in 0..(latestEvent.seats - 1) :
              LET c == Claimants(latestSummary, i + 1)
              IN  artistSeats.items[i + 1] =
                     IF c # {} THEN latestSummary.items[Last(c)] ELSE Null

\* C1 witness: N = 3 with one summary at seat 2 gives [null, a, null].
C1_Witness ==
    /\ BothArrived
    /\ latestEvent.seats = 3
    /\ latestSummary = ArrayOf(<<ArtistSummary(SlugAt[1], 2)>>)
    /\ artistSeats = ArrayOf(<<Null, ArtistSummary(SlugAt[1], 2), Null>>)

\* C2: when some summary has a seat outside [1,N], the derived sequence
\* still has length exactly N and that summary occupies no slot of it.
C2_OutOfRangeIgnored ==
    (BothArrived /\ ~(\A j \in 1..Length(latestSummary) :
                        latestSummary.items[j].seat \in 1..latestEvent.seats)) =>
        /\ artistSeats # Null
        /\ Length(artistSeats) = latestEvent.seats
        /\ \A j \in 1..Length(latestSummary) :
              latestSummary.items[j].seat \notin 1..latestEvent.seats =>
                 latestSummary.items[j] \notin Elements(artistSeats)

\* The list without the summaries that a later summary of the same
\* in-range seat shadows.
RECURSIVE WithoutShadowed(_, _, _)
WithoutShadowed(list, n, j) ==
    IF j > Length(list) THEN <<>>
    ELSE IF /\ list.items[j].seat \in 1..n
            /\ \E k \in (j + 1)..Length(list) : list.items[k].seat = list.items[j].seat
    THEN WithoutShadowed(list, n, j + 1)
    ELSE <<list.items[j]>> \o WithoutShadowed(list, n, j + 1)

\* Some seat in 1..n is claimed by two or more summaries of the list.
HasDuplicate(list, n) == \E k \in 1..n : Cardinality(Claimants(list, k)) >= 2

\* C3: when several summaries claim the same seat k in [1,N], slot k-1 holds
\* the one that comes last in list order, and the whole sequence is the one
\* derived from the list without the earlier duplicates.
C3_LastWriteWins ==
    (BothArrived /\ HasDuplicate(latestSummary, latestEvent.seats)) =>
        /\ artistSeats # Null
        /\ \A k \in 1..latestEvent.seats :
              Cardinality(Claimants(latestSummary, k)) >= 2 =>
                 artistSeats.items[k] =
                    latestSummary.items[Last(Claimants(latestSummary, k))]
        /\ artistSeats =
              artistSeatsMemo(latestEvent,
                  ArrayOf(WithoutShadowed(latestSummary, latestEvent.seats, 1))).value

\* C3 witness: two summaries claim seat 1, the later one is in slot 0.
C3_Witness ==
    /\ BothArrived
    /\ latestEvent.seats >= 1
    /\ Length(latestSummary) = 2
    /\ latestSummary.items[1].seat = 1
    /\ latestSummary.items[2].seat = 1
    /\ artistSeats # Null
    /\ artistSeats.items[1] = latestSummary.items[2]

\* C4: the derivation is pure and idempotent: a run of the memo leaves the
\* event record and the summary list as the fetch delivered them, and a
\* second run on the inputs the first one left returns the same sequence.
C4_PureIdempotent ==
    /\ \A e \in EventIds :
          /\ eventQuery[e] = fetchedEvent[e]
          /\ summaryQuery[e] = fetchedSummary[e]
    /\ mounted =>
          LET again == artistSeatsMemo(eventQuery[viewEvent], summaryQuery[viewEvent])
          IN  /\ again.value = artistSeats
              /\ again.eventData = eventQuery[viewEvent]
              /\ again.eventArtistSummary = summaryQuery[viewEvent]

\* C4 witness: a sequence with an occupant was derived from a list.
C4_Witness ==
    /\ BothArrived
    /\ artistSeats # Null
    /\ Occupants(artistSeats) # {}
    /\ Length(summaryQuery[viewEvent]) = 2

artistParam == parseSearch(location.searchStr).artist

\* The latest call was select(null) and the one before it selected a slug.
ClearedAfterSlug ==
    mounted /\ lastCall = Null /\ prevCall \notin {Undefined, Null}

\* C6 (as claimed): selecting null after selecting a slug clears the
\* selection and removes the `artist` parameter: the URL carries no `artist`
\* parameter at all.
C6_ClearRemovesParam ==
    ClearedAfterSlug => (selectedArtist = Null /\ location.searchStr = "")

\* C6 (amended): selecting null after selecting a slug clears the selection
\* and leaves the `artist` parameter designating no slug: the parameter is
\* removed by events_.$eventId.tsx and set to the empty string (`?artist=`)
\* by events_.$eventId.index.tsx.
C6_ClearDesignatesNoSlug ==
    ClearedAfterSlug =>
        /\ selectedArtist = Null
        /\ Falsy(artistParam)
        /\ build = "layout" => location.searchStr = ""
        /\ build = "index" => location.searchStr = "?artist="

\* C6 witness: a slug was selected and then null, on the index route.
C6_Witness ==
    /\ ClearedAfterSlug
    /\ prevCall = Str(SlugAt[1])
    /\ build = "index"
    /\ selectedArtist = Null
    /\ location.searchStr = "?artist="

\* C7: the selection is null or one slug; after any sequence of select calls
\* on a mounted view it is the argument of the latest call, and the `artist`
\* parameter designates that slug (no slug when the selection is null).
C7_SelectionMirrorsUrl ==
    mounted =>
        /\ selectedArtist \in {Null} \cup {Str(SlugAt[j]) : j \in 1..Len(SlugAt)}
        /\ lastCall # Undefined => selectedArtist = lastCall
        /\ Or(artistParam, Null) = selectedArtist

\* C7 witness: one slug was selected after another.
C7_Witness ==
    /\ mounted
    /\ prevCall = Str(SlugAt[3])
    /\ lastCall = Str(SlugAt[2])
    /\ selectedArtist = Str(SlugAt[2])
    /\ location.searchStr = "?artist=crimson-paws"

\* C8: a select call, with a slug or with null, replaces the current
\* history entry: the history is as long as before, the current entry is
\* the same one, and the route and its event id are unchanged.
C8_ReplaceStyle ==
    [][(\E i \in 1..(MaxSeats + 2) : ClickSeat(i)) =>
          /\ Len(history') = Len(history)
          /\ histIdx' = histIdx
          /\ location'.path = location.path
          /\ location'.eventId = location.eventId
          /\ \A k \in 1..Len(history) : k # histIdx => history'[k] = history[k]]_vars

\* C8 witness: a slug and then null were selected on the page the tab was
\* opened with, and the history still has that one entry.
C8_Witness ==
    /\ ClearedAfterSlug
    /\ Len(history) = 1
    /\ location.path = EventPath

\* C9: a view that is re-created on a history entry starts with the
\* selection the view had when that entry was left, and a view created on a
\* URL with no or an empty `artist` parameter starts with no selection.
C9_RoundTrip ==
    (mounted /\ lastCall = Undefined) =>
        /\ leftWith[histIdx] # Undefined => selectedArtist = leftWith[histIdx]
        /\ Falsy(artistParam) => selectedArtist = Null

\* C9 witness: the page was entered from the events list (with no slug in
\* the URL), luna-starweaver was selected, the page was left and re-entered,
\* and the new view starts with luna-starweaver.
C9_Witness ==
    /\ mounted
    /\ lastCall = Undefined
    /\ history[1] = EventsLocation
    /\ histIdx = 2
    /\ leftWith[histIdx] = Str("luna-starweaver")
    /\ selectedArtist = Str("luna-starweaver")

\* The slugs of the occupants of the seat array shown.
occupantSlugs ==
    IF artistSeats = Null THEN {} ELSE {a.slug : a \in Occupants(artistSeats)}

\* C10: no validation: a select call with a non-empty slug s makes s the
\* selection, and a view created on a URL whose `artist` parameter is a
\* non-empty slug s starts with the selection s, whatever the seat array
\* holds: s need not be the slug of an occupant.
C10_NoValidation ==
    mounted =>
        /\ (lastCall # Undefined /\ ~Falsy(lastCall)) => selectedArtist = lastCall
        /\ (lastCall = Undefined /\ ~Falsy(artistParam)) => selectedArtist = artistParam

\* C10 witness: the view was created on a URL with a slug, the seat array
\* is derived and has occupants, and none of them has the selected slug.
C10_Witness ==
    /\ mounted
    /\ lastCall = Undefined
    /\ artistSeats # Null
    /\ occupantSlugs # {}
    /\ selectedArtist # Null
    /\ selectedArtist \notin occupantSlugs

\* ------------------------------------------------------ gateway claims
\* The places (list, position) of the data source where an event has the
\* slug, the positions where an artist has it.
EventHits(slug) ==
    {<<key, i>> \in {"current", "upcoming", "past"} \X (1..6) :
        /\ i <= Length(MockEventData[key])
        /\ MockEventData[key].items[i].slug = Str(slug)}
ArtistHits(slug) ==
    {i \in 1..Length(MockArtistData) : MockArtistData.items[i].slug = Str(slug)}

\* The event of the data source with the slug.
EventOf(slug) ==
    LET hit == CHOOSE h \in EventHits(slug) : TRUE
    IN  MockEventData[hit[1]].items[hit[2]]

\* The calls of an operation made so far.
CallsOf(op) == {k \in 1..Len(promises) : promises[k].op = op}

\* C11: fetchEvent with an eventId that is the slug of no event fails with a
\* not-found error delivered to its caller: once its timer has fired (after
\* which nothing is left that could settle it) the promise is rejected.
C11_UnknownEventRejected ==
    \A k \in CallsOf("fetchEvent") :
        (promises[k].arg \notin EventSlugs /\ ~promises[k].timer) =>
            /\ promises[k].state = "rejected"
            /\ promises[k].value = Error("Event Not Found")

\* C12: fetchArtist resolves with the artist record whose slug equals the
\* argument when there is one and is rejected with a not-found error when
\* there is none; the promise is pending until the timer fires and the
\* callback settles it by exactly one call of resolve or reject.
C12_FetchArtistSettlesOnce ==
    \A k \in CallsOf("fetchArtist") :
        IF promises[k].timer
        THEN promises[k].state = "pending" /\ promises[k].settleCalls = 0
        ELSE /\ promises[k].settleCalls = 1
             /\ IF promises[k].arg \in ArtistSlugs
                THEN /\ promises[k].state = "fulfilled"
                     /\ promises[k].value \in Elements(MockArtistData)
                     /\ promises[k].value.slug = Str(promises[k].arg)
                ELSE /\ promises[k].state = "rejected"
                     /\ promises[k].value = Error("Artist Not Found")

\* A fetchArtist call has been fulfilled and another one rejected.
C12_Witness ==
    \E j, k \in CallsOf("fetchArtist") :
        /\ promises[j].state = "fulfilled" /\ promises[j].arg = "crimson-2"
        /\ promises[k].state = "rejected" /\ promises[k].arg = "nobody"

\* C13: fetchEventArtists with an eventId that is the slug of no event fails
\* with not-found instead of resolving to a summary list.
C13_UnknownEventArtistsRejected ==
    \A k \in CallsOf("fetchEventArtists") :
        (promises[k].arg \notin EventSlugs /\ ~promises[k].timer) =>
            promises[k].state = "rejected"

\* C17: for every event e of the data source the summaries returned by
\* fetchEventArtists(e.slug) have pairwise distinct seats within
\* [1, e.seats], and the seat array derived from them has length e.seats
\* and contains every returned summary.
C17_SeatDataWellFormed ==
    \A k \in CallsOf("fetchEventArtists") :
        (promises[k].arg \in EventSlugs /\ promises[k].state = "fulfilled") =>
            LET e == EventOf(promises[k].arg)
                seats == artistSeatsMemo(e, promises[k].value).value
            IN  /\ UniqueInRange(promises[k].value, e.seats)
                /\ Length(seats) = e.seats
                /\ Elements(promises[k].value) \subseteq Occupants(seats)

\* C18: every event slug occurs exactly once across the current, upcoming
\* and past lists and every artist slug exactly once in the artist data: a
\* lookup by a slug of the data has one match (the loop of fetchEvent calls
\* resolve once), and the event is in one category.
C18_SlugsUnique ==
    /\ \A k \in CallsOf("fetchEvent") :
          promises[k].arg \in EventSlugs =>
            /\ Cardinality(EventHits(promises[k].arg)) = 1
            /\ ~promises[k].timer => promises[k].settleCalls = 1
    /\ \A k \in CallsOf("fetchArtist") :
          promises[k].arg \in ArtistSlugs =>
            Cardinality(ArtistHits(promises[k].arg)) = 1

\* An event of the upcoming list and an artist have been looked up.
C18_Witness ==
    \E j \in CallsOf("fetchEvent"), k \in CallsOf("fetchArtist") :
        /\ promises[j].arg = "event-5" /\ promises[j].state = "fulfilled"
        /\ promises[k].arg = "wild-strokes" /\ promises[k].state = "fulfilled"

\* ------------------------------------------------------- button claims
\* C19: the button is a two-state machine {idle, confirming} that starts in
\* idle, and its reset timer is pending if and only if the button is
\* confirming: one timer, the one timeoutId names, is pending while a
\* rendered button is confirming, none while it is idle and none once the
\* component is disposed.
C19_TimerIffConfirming ==
    /\ confirming \in BOOLEAN
    /\ (clicks = 0) => ~confirming
    /\ buttonMounted => ((timers # {}) <=> confirming)
    /\ (buttonMounted /\ confirming) => timers = {timeoutId}
    /\ ~buttonMounted => timers = {}

\* The button has been through a confirmation and an expiry, is confirming
\* again and its third timer is pending.
C19_Witness ==
    /\ buttonMounted
    /\ confirming
    /\ onConfirmCalls = 1
    /\ clicks = 4
    /\ timers = {Num(3)}

\* C20: whenever the button has entered confirming and no further click
\* arrives (and the component stays), the timer eventually fires and the
\* button is idle again, showing the initial text, without onConfirm having
\* been invoked in between.
C20_AutoReset ==
    \A n \in 0..MaxClicks, c \in 0..MaxClicks :
        (buttonMounted /\ confirming /\ clicks = n /\ onConfirmCalls = c)
            ~> \/ /\ ~confirming
                  /\ buttonText = "initialText"
                  /\ lastExit = "timeout"
                  /\ clicks = n
                  /\ onConfirmCalls = c
               \/ clicks > n
               \/ ~buttonMounted

\* The button went back to idle by the timer alone: one click, no
\* confirmation.
C20_Witness ==
    /\ buttonMounted
    /\ ~confirming
    /\ lastExit = "timeout"
    /\ clicks = 1
    /\ onConfirmCalls = 0
    /\ timers = {}

\* -------------------------------------------------------- query claims
\* C14: when the event page is opened for a slug found in none of the
\* lists, the page raises no error, renders no seat view and none of the
\* current/upcoming/past notices, and no fetchEvent or fetchEventArtists
\* call is made for that slug.
C14_UnknownEventRendersNothing ==
    (location.path = EventPath /\ location.eventId \notin EventSlugs) =>
        /\ ~mounted
        /\ artistSeats = Null
        /\ selectedArtist = Null
        /\ CurrentEventComponentView(cache, location).branch = "none"
        /\ CurrentEventComponentView(cache, location).heading # TypeError
        /\ <<"fetchEvent", location.eventId>> \notin issued
        /\ <<"fetchEventArtists", location.eventId>> \notin issued
        /\ \A u \in uncaught : u.arg # location.eventId

\* The page of the unknown slug event-0 with the events list arrived.
C14_Witness ==
    /\ location.path = EventPath
    /\ location.eventId = "event-0"
    /\ QueryAt(cache, <<"events">>).data = MockEventData
    /\ QueryAt(cache, <<"events">>).promise = Undefined

\* A fetch fails: its promise is rejected or its callback throws.
Failed(ran) == ran.promise.state = "rejected" \/ ran.thrown # Null

\* C15: a failed fetch changes only the state of the fragment that issued
\* it (the query it fetched for); a failed artist-details fetch leaves the
\* seat array and the selection unchanged; and the failure does not leave
\* the gateway as an error nobody handles.
C15_FailureIsolated ==
    [][\A key \in DOMAIN cache :
          (QueryTimerFires(key) /\ Failed(Fired(cache[key].promise))) =>
              /\ \A k \in DOMAIN cache \ {key} : cache'[k] = cache[k]
              /\ cache[key].promise.op = "fetchArtist" =>
                    /\ artistSeats' = artistSeats
                    /\ selectedArtist' = selectedArtist
              /\ Fired(cache[key].promise).thrown = Null
              /\ uncaught' = uncaught]_vars

\* What the mounted views show: the selection, the seat array and the data
\* and error of the queries they observe.
Shown(query) == [data |-> query.data, error |-> query.error]
Rendered ==
    [mounted |-> mounted,
     selectedArtist |-> selectedArtist,
     artistSeats |-> artistSeats,
     event |-> IF mounted THEN Shown(QueryAt(cache, <<viewEvent>>)) ELSE Null,
     summary |-> IF mounted
                 THEN Shown(QueryAt(cache, <<viewEvent, "artist summary">>))
                 ELSE Null,
     artist |-> IF mounted /\ ~Falsy(selectedArtist)
                THEN Shown(QueryAt(cache, <<selectedArtist.str>>))
                ELSE Null]

\* The fetch was made by a seat view or a details panel that is gone: no
\* mounted view is the seat view of that event or the panel of that artist.
FromDisposedView(promise) ==
    \/ /\ promise.op \in {"fetchEvent", "fetchEventArtists"}
       /\ ~mounted \/ promise.arg # viewEvent
    \/ /\ promise.op = "fetchArtist"
       /\ ~mounted \/ Falsy(selectedArtist) \/ promise.arg # selectedArtist.str

\* C16: the result of a fetch whose view was unmounted while it was
\* outstanding changes no seat array, no selection and no rendered state of
\* the views mounted afterwards for a different event or artist.
C16_LateResultDiscarded ==
    [][\A key \in DOMAIN cache :
          (QueryTimerFires(key) /\ FromDisposedView(cache[key].promise)) =>
              Rendered' = Rendered]_vars

\* A fetch of the query of key, made by op(arg), is in flight.
Fetching(key, op, arg) ==
    /\ key \in DOMAIN cache
    /\ cache[key].promise # Undefined
    /\ cache[key].promise.op = op
    /\ cache[key].promise.arg = arg

\* The seat view of event e exists; the details panel of artist a exists.
SeatViewOf(e) == mounted /\ location.eventId = e
DetailsOf(a) == mounted /\ selectedArtist = Str(a)

\* C21: while the seat view of a current event stays mounted, whether the
\* page is visible or in the background, every fetchEvent and every
\* fetchEventArtists of the event is followed by a further one: whenever no
\* such fetch is in flight one is started later, and every fetch in flight
\* ends.  The same holds for fetchArtist of the selected slug while the
\* selection stays.
C21_Polling ==
    /\ \A e \in {"event-1"} :
        /\ SeatViewOf(e) ~> (Fetching(<<e>>, "fetchEvent", e) \/ ~SeatViewOf(e))
        /\ Fetching(<<e>>, "fetchEvent", e) ~> ~Fetching(<<e>>, "fetchEvent", e)
        /\ SeatViewOf(e)
              ~> (Fetching(<<e, "artist summary">>, "fetchEventArtists", e)
                  \/ ~SeatViewOf(e))
        /\ Fetching(<<e, "artist summary">>, "fetchEventArtists", e)
              ~> ~Fetching(<<e, "artist summary">>, "fetchEventArtists", e)
    /\ \A a \in PastedArtists \cup {SlugAt[1]} :
        /\ DetailsOf(a) ~> (Fetching(<<a>>, "fetchArtist", a) \/ ~DetailsOf(a))
        /\ Fetching(<<a>>, "fetchArtist", a) ~> ~Fetching(<<a>>, "fetchArtist", a)

\* The three queries have been fetched again by their intervals while the
\* page was in the background, and a further fetch of each is in flight.
C21_Witness ==
    /\ DetailsOf(SlugAt[1])
    /\ ~focused
    /\ {<<"fetchEvent", "event-1", FALSE>>, <<"fetchEventArtists", "event-1", FALSE>>,
        <<"fetchArtist", SlugAt[1], FALSE>>} \subseteq polled
    /\ cache[<<"event-1">>].data # Undefined
    /\ Fetching(<<"event-1">>, "fetchEvent", "event-1")
    /\ Fetching(<<"event-1", "artist summary">>, "fetchEventArtists", "event-1")
    /\ Fetching(<<SlugAt[1]>>, "fetchArtist", SlugAt[1])

\* C22: fetchEvent with the slug of an event of the data source, of any
\* list, resolves with the record of that slug, and its timer callback
\* completes without raising an error.
C22_KnownEventResolves ==
    \A k \in CallsOf("fetchEvent") :
        (promises[k].arg \in EventSlugs /\ ~promises[k].timer) =>
            /\ promises[k].state = "fulfilled"
            /\ promises[k].value = EventOf(promises[k].arg)
            /\ promises[k].value.slug = Str(promises[k].arg)
            /\ \A u \in uncaught : ~(u.op = "fetchEvent" /\ u.arg = promises[k].arg)

\* C23: onConfirm is called on exactly the clicks that arrive while the
\* button is confirming, once per such click, and such a click leaves the
\* button idle; a click on the idle button (the first one, the one after a
\* confirmation or after an auto-reset) calls nothing and enters
\* confirming; no other step calls onConfirm.
C23_ConfirmOnSecondClick ==
    [][/\ (clicks' = clicks + 1 /\ confirming) =>
              (onConfirmCalls' = onConfirmCalls + 1 /\ ~confirming')
       /\ (clicks' = clicks + 1 /\ ~confirming) =>
              (onConfirmCalls' = onConfirmCalls /\ confirming')
       /\ (clicks' = clicks) => onConfirmCalls' = onConfirmCalls]_vars

\* Two confirmations and an auto-reset in between: five clicks of which the
\* first entered confirming and timed out.
C23_Witness ==
    /\ clicks = 5
    /\ onConfirmCalls = 2
    /\ ~confirming
    /\ lastExit = "click"
    /\ timerSeq = 3

\* C24: the only timer that ever fires is the one armed by the current
\* entry into confirming, on a rendered button that is still confirming; a
\* timer cancelled by the confirming click or by the disposal of the
\* component never fires, and nothing of the button changes once it is
\* disposed.
C24_NoStaleTimer ==
    [][/\ (timers' # timers /\ clicks' = clicks /\ buttonMounted' = buttonMounted) =>
              /\ buttonMounted
              /\ confirming
              /\ timeoutId = Num(timerSeq)
              /\ timers \ timers' = {Num(timerSeq)}
              /\ timers' = {}
       /\ ~buttonMounted => UNCHANGED buttonVars]_vars

\* A confirming click has cancelled the first timer, and a later confirming
\* period has run its full delay and was ended by its own timer.
C24_Witness ==
    /\ onConfirmCalls = 1
    /\ clicks = 3
    /\ timerSeq = 2
    /\ lastExit = "timeout"
    /\ ~confirming
    /\ timers = {}

\* C25: the seat array of the mounted view is null as long as the event
\* details or the summary list has not arrived, in whichever order the two
\* fetches complete, and it is an array as soon as both are present (an
\* empty list and a capacity of 0 are results too).
C25_NullUntilBoth ==
    /\ ~mounted => artistSeats = Null
    /\ mounted =>
          /\ (latestEvent = Undefined \/ latestSummary = Undefined) => artistSeats = Null
          /\ BothArrived => (artistSeats # Null /\ artistSeats.kind = "array")

\* The summary list has arrived first, with an occupant, and the event
\* details are still missing: no seat array.
C25_Witness ==
    /\ mounted
    /\ latestEvent = Undefined
    /\ latestSummary # Undefined
    /\ Length(latestSummary) > 0
    /\ artistSeats = Null

\* The details panel is rendered: <Show when={selectedArtist()}>.
detailsShown == mounted /\ ~Falsy(selectedArtist)

\* C26: a click on the row of slot i calls updateSelectedArtist with the
\* slug of the summary in the slot when the slot is occupied and with null
\* when it is empty; the selection becomes that value, and the details
\* panel is shown exactly when the selection is not null.
C26_ClickSelectsOccupant ==
    [][/\ \A i \in 1..(MaxSeats + 2) :
            ClickSeat(i) =>
                LET occupant == artistSeats.items[i]
                IN  /\ lastCall' = IF occupant # Null THEN occupant.slug ELSE Null
                    /\ selectedArtist' = lastCall'
                    /\ detailsShown' <=> (occupant # Null)
       /\ mounted' => (detailsShown' <=> selectedArtist' # Null)]_vars

\* A click on an empty row was followed by a click on the row of an artist
\* no link names: the artist is selected and the panel is shown.
C26_Witness ==
    /\ detailsShown
    /\ artistSeats # Null
    /\ artistSeats.items[2] = ArtistSummary(SlugAt[3], 2)
    /\ lastCall = Str(SlugAt[3])
    /\ prevCall = Null
    /\ selectedArtist = Str(SlugAt[3])

\* The events data the page classifies with, and the lists of it that hold
\* an event with the slug.
allEventsData == QueryAt(cache, <<"events">>).data
Listed(key, e) ==
    /\ allEventsData # Undefined
    /\ \E i \in 1..Length(allEventsData[key]) :
          allEventsData[key].items[i].slug = Str(e)

\* The first of current, upcoming, past that lists the slug.
Category(e) ==
    IF Listed("current", e) THEN "current"
    ELSE IF Listed("upcoming", e) THEN "upcoming"
    ELSE IF Listed("past", e) THEN "past"
    ELSE "none"

\* C27: the event page renders the branch of the first list that holds the
\* requested slug, never two branches; CurrentEvent with its selection and
\* its seat array exists exactly while that branch is `current`, and
\* fetchEvent and fetchEventArtists are only ever called for events
\* classified as current.
C27_CategoryGatesSeatView ==
    /\ location.path = EventPath =>
          LET eventData == eventDataMemo(allEventsData, location.eventId)
          IN  /\ CurrentEventComponentView(cache, location).branch
                    = Category(location.eventId)
              /\ Cardinality({key \in {"current", "upcoming", "past"} :
                                 optionalKey(eventData) = Str(key)}) <= 1
              /\ mounted <=> (Category(location.eventId) = "current")
    /\ location.path # EventPath => ~mounted
    /\ ~mounted => (selectedArtist = Null /\ artistSeats = Null)
    /\ \A call \in issued :
          call[1] \in {"fetchEvent", "fetchEventArtists"} =>
              FindBySlug(MockEventData.current, call[2]) # Undefined

\* The page of an upcoming event, reached from the page of a current one:
\* the `upcoming` branch, no seat view, nothing fetched for the event.
C27_Witness ==
    /\ location.path = EventPath
    /\ location.eventId = "event-4"
    /\ Category("event-4") = "upcoming"
    /\ ~mounted
    /\ <<"fetchEvent", "event-1">> \in issued
    /\ <<"fetchEvent", "event-4">> \notin issued

\* C28: a select call leaves the seat array and the query data it is
\* derived from as they are, and a result of fetchEvent or of
\* fetchEventArtists (first fetch or poll) leaves the selection, the
\* location and the history as they are, also when the selected artist
\* holds no seat in the fresh data.
C28_SelectionAndSeatsIndependent ==
    [][/\ (\E i \in 1..(MaxSeats + 2) : ClickSeat(i)) =>
              /\ artistSeats' = artistSeats
              /\ eventQuery' = eventQuery
              /\ summaryQuery' = summaryQuery
              /\ fetchedEvent' = fetchedEvent
              /\ fetchedSummary' = fetchedSummary
       /\ ((\E data \in PageEventResults : EventResult(data))
           \/ (\E data \in PageSummaryLists : SummaryResult(data))) =>
              /\ selectedArtist' = selectedArtist
              /\ history' = history
              /\ histIdx' = histIdx
              /\ lastCall' = lastCall]_vars

\* An artist was selected by a click on their row, and a later list no
\* longer seats them: they are still selected and still in the URL.
C28_Witness ==
    /\ mounted
    /\ superseded
    /\ lastCall = Str(SlugAt[3])
    /\ selectedArtist = Str(SlugAt[3])
    /\ artistSeats # Null
    /\ Str(SlugAt[3]) \notin occupantSlugs
    /\ location.searchStr = "?artist=" \o SlugAt[3]

\* The number of empty (null) slots of a seat array.
EmptySlots(seats) == Cardinality({i \in 1..Length(seats) : seats.items[i] = Null})

\* C29: for every event the gateway serves, the seatsAvailable of the
\* record fetchEvent resolves with equals the number of null slots of the
\* seat array derived from that record and the list fetchEventArtists
\* resolves with for the same event, which is the capacity minus the
\* number of occupied slots.
C29_AvailableMatchesEmptySlots ==
    \A j \in CallsOf("fetchEvent"), k \in CallsOf("fetchEventArtists") :
        (/\ promises[j].arg = promises[k].arg
         /\ promises[j].state = "fulfilled"
         /\ promises[k].state = "fulfilled") =>
            LET seats == artistSeatsMemo(promises[j].value, promises[k].value).value
            IN  /\ promises[j].value.seatsAvailable = EmptySlots(seats)
                /\ EmptySlots(seats)
                      = promises[j].value.seats - Cardinality(Occupants(seats))

\* The kind of record a query holds.
IsArtist(v) == v.kind = "object" /\ "eventId" \in DOMAIN v
IsEventDetails(v) == v.kind = "object" /\ "seatsAvailable" \in DOMAIN v

\* C30: no event slug is an artist slug or the literal 'events', and so the
\* query of the details panel, under [artistId], never holds an
\* EventDetails record or the events list and never shares a fetch that is
\* not fetchArtist, and the query of the seat view, under [eventId], never
\* holds an Artist and never shares a fetch that is not fetchEvent.
C30_KeysDoNotCollide ==
    /\ EventSlugs \cap ArtistSlugs = {}
    /\ "events" \notin EventSlugs \cup ArtistSlugs
    /\ \A a \in PastedArtists \cup {SlugAt[1]} :
          DetailsOf(a) =>
              LET query == QueryAt(cache, <<a>>)
              IN  /\ query.data = Undefined \/ IsArtist(query.data)
                  /\ query.promise # Undefined => query.promise.op = "fetchArtist"
    /\ mounted =>
          LET query == QueryAt(cache, <<location.eventId>>)
          IN  /\ query.data = Undefined \/ IsEventDetails(query.data)
              /\ query.promise # Undefined => query.promise.op = "fetchEvent"

====
